---- MODULE Spec2Model ----
(***************************************************************************)
(* The External backend of wavesurfer.js (src/src/external-backend.js): a  *)
(* playback clock driven by requestAnimationFrame callbacks.               *)
(*                                                                         *)
(* Units.  Positions, durations and clock readings are whole seconds;      *)
(* frame timestamps are milliseconds and lie on the grid of whole seconds  *)
(* (k * MsPerSec), so that `time / 1000` is exact, as it is in IEEE        *)
(* doubles for these values.                                               *)
(*                                                                         *)
(* JavaScript values.  The fields of the object hold numbers, null or      *)
(* undefined, and arithmetic on them can produce NaN.  A value is a record *)
(* [k, n]: k is the kind and n the number (0 for the other kinds).         *)
(***************************************************************************)
EXTENDS Integers, Sequences, FiniteSets, TLC

\* ------------------------------------------------------------- bounds
\* Latest frame timestamp, in seconds.
MaxClock == 3
\* Largest clip duration passed to load(), in seconds.
MaxDur == 2
\* Most requestAnimationFrame callbacks outstanding at once.
MaxPending == 2
\* Largest |startPosition| followed (pause() can add played time repeatedly).
MaxPos == 4

\* ------------------------------------------------------------- constants
PLAYING == "playing"
PAUSED == "paused"
FINISHED == "finished"
\* this.state = null, as the constructor leaves it
NOSTATE == "null"
\* the divisor of `time / 1000`
MsPerSec == 1000

\* ------------------------------------------------------------- JavaScript values
Num(i) == [k |-> "num", n |-> i]
Null == [k |-> "null", n |-> 0]
Undef == [k |-> "undefined", n |-> 0]
NaN == [k |-> "NaN", n |-> 0]

IsNum(v) == v.k = "num"
\* v == null
IsNullish(v) == v.k \in {"null", "undefined"}
\* ToBoolean(v), for numbers, null and undefined
Truthy(v) == v.k = "num" /\ v.n # 0
\* ToNumber(v): null is 0, undefined is NaN
ToNumber(v) == IF v.k = "null" THEN Num(0) ELSE IF v.k = "undefined" THEN NaN ELSE v

Add(a, b) ==
    LET x == ToNumber(a)
        y == ToNumber(b)
    IN  IF IsNum(x) /\ IsNum(y) THEN Num(x.n + y.n) ELSE NaN

Sub(a, b) ==
    LET x == ToNumber(a)
        y == ToNumber(b)
    IN  IF IsNum(x) /\ IsNum(y) THEN Num(x.n - y.n) ELSE NaN

Mul(a, b) ==
    LET x == ToNumber(a)
        y == ToNumber(b)
    IN  IF IsNum(x) /\ IsNum(y) THEN Num(x.n * y.n) ELSE NaN

\* a < b: false as soon as one side is NaN
Lt(a, b) ==
    LET x == ToNumber(a)
        y == ToNumber(b)
    IN  IsNum(x) /\ IsNum(y) /\ x.n < y.n

\* a >= b: false as soon as one side is NaN
Ge(a, b) ==
    LET x == ToNumber(a)
        y == ToNumber(b)
    IN  IsNum(x) /\ IsNum(y) /\ x.n >= y.n

\* time / 1000 for a timestamp on the grid of whole seconds
MsToSec(time) ==
    LET x == ToNumber(time)
    IN  IF IsNum(x) THEN Num(x.n \div MsPerSec) ELSE NaN

RECURSIVE Gcd(_, _)
Gcd(a, b) == IF b = 0 THEN a ELSE Gcd(b, a % b)

Abs(i) == IF i < 0 THEN -i ELSE i

\* a / b: a quotient is a record [k, n, d], the fraction n/d in lowest terms
\* with d > 0; k is "inf" or "-inf" for a non-zero number over 0, "NaN" for 0/0.
Quot(a, b) ==
    LET x == ToNumber(a)
        y == ToNumber(b)
    IN  IF ~(IsNum(x) /\ IsNum(y)) THEN [k |-> "NaN", n |-> 0, d |-> 1]
        ELSE IF y.n = 0
             THEN IF x.n = 0 THEN [k |-> "NaN", n |-> 0, d |-> 1]
                  ELSE IF x.n > 0 THEN [k |-> "inf", n |-> 0, d |-> 1]
                  ELSE [k |-> "-inf", n |-> 0, d |-> 1]
        ELSE LET g == Gcd(Abs(x.n), Abs(y.n))
                 s == IF y.n < 0 THEN -1 ELSE 1
             IN  [k |-> "num", n |-> (s * x.n) \div g, d |-> (s * y.n) \div g]

\* q || 0
OrZero(q) ==
    IF q.k = "NaN" \/ (q.k = "num" /\ q.n = 0) THEN [k |-> "num", n |-> 0, d |-> 1] ELSE q

\* ------------------------------------------------------------- state
VARIABLES
    state,              \* this.state
    startPosition,      \* this.startPosition
    lastPlay,           \* this.lastPlay
    clockTime,          \* this.clockTime
    playbackRate,       \* this.playbackRate
    scheduledPause,     \* this.scheduledPause
    explicitDuration,   \* this.explicitDuration
    handlers,           \* whether the handlers of createTimer() are subscribed
    pending,            \* requestAnimationFrame callbacks requested and not yet run
    emitted,            \* the events fired, in order, by the latest operation
    now,                \* the timestamp of the latest frame, in milliseconds
    phase,              \* "constructed", "ready" after init(), "destroyed" after destroy()
    call,               \* the latest operation and the state it was called in
    ticked,             \* the current Playing session has handled a frame
    seeked              \* seekTo() was called during the current Playing session

vars == <<state, startPosition, lastPlay, clockTime, playbackRate, scheduledPause,
          explicitDuration, handlers, pending, emitted, now, phase, call, ticked, seeked>>

\* The object as the methods see it, at the start of an operation.
This ==
    [state |-> state, startPosition |-> startPosition, lastPlay |-> lastPlay,
     clockTime |-> clockTime, playbackRate |-> playbackRate,
     scheduledPause |-> scheduledPause, explicitDuration |-> explicitDuration,
     handlers |-> handlers, pending |-> pending, emitted |-> <<>>]

\* ------------------------------------------------------------- methods
getDuration(o) == o.explicitDuration

\* mutant: the difference taken the wrong way round
getPlayedTime_Reversed(o) == Mul(Sub(o.lastPlay, o.clockTime), o.playbackRate)

\* mutant: an unset clock reading or anchor counts as undefined, not as 0
getPlayedTime_UnsetIsNaN(o) ==
    IF IsNullish(o.clockTime) \/ IsNullish(o.lastPlay) THEN NaN
    ELSE Mul(Sub(o.clockTime, o.lastPlay), o.playbackRate)

getPlayedTime(o) == Mul(Sub(o.clockTime, o.lastPlay), o.playbackRate)

getCurrentTime(o) ==
    CASE o.state = PLAYING -> Add(o.startPosition, getPlayedTime(o))
      [] o.state = PAUSED -> o.startPosition
      [] o.state = FINISHED -> getDuration(o)
      [] OTHER -> Undef

isPaused(o) == o.state # PLAYING

getPlayedPercents(o) ==
    IF o.state = FINISHED THEN [k |-> "num", n |-> 1, d |-> 1]
    ELSE OrZero(Quot(getCurrentTime(o), getDuration(o)))

\* util.Observer.fireEvent: the event reaches the subscribers, if any is left
fireEvent(o, name, arg) ==
    IF o.handlers THEN [o EXCEPT !.emitted = Append(@, [name |-> name, arg |-> arg])]
    ELSE o

\* util.Observer.unAll
unAll(o) == [o EXCEPT !.handlers = FALSE]

setState(o, s) ==
    IF o.state # s
    THEN LET o1 == [o EXCEPT !.state = s]
         IN  IF s = FINISHED THEN fireEvent(o1, "finish", Undef) ELSE o1
    ELSE o

\* the 'pause' subscriber of createTimer()
onPause(o) == fireEvent(o, "audioprocess", getCurrentTime(o))

\* mutant: scheduledPause is not cleared
pause_KeepsSchedule(o) ==
    LET o1 == [o EXCEPT !.startPosition = Add(o.startPosition, getPlayedTime(o))]
        o2 == setState(o1, PAUSED)
        o3 == fireEvent(o2, "pause", Undef)
    IN  IF o3.handlers THEN onPause(o3) ELSE o3

\* mutant: the state is set after the event has been fired
pause_StateAfterEvent(o) ==
    LET o1 == [o EXCEPT !.scheduledPause = Null,
                        !.startPosition = Add(o.startPosition, getPlayedTime(o))]
        o2 == fireEvent(o1, "pause", Undef)
        o3 == IF o2.handlers THEN onPause(o2) ELSE o2
    IN  setState(o3, PAUSED)

pause(o) ==
    LET o1 == [o EXCEPT !.scheduledPause = Null,
                        !.startPosition = Add(o.startPosition, getPlayedTime(o))]
        o2 == setState(o1, PAUSED)
        o3 == fireEvent(o2, "pause", Undef)
    IN  IF o3.handlers THEN onPause(o3) ELSE o3

\* mutant: a finished clip is not brought back to Paused
seekTo_NoRevive(o, start) ==
    LET cur == getCurrentTime(o)
        s == IF IsNullish(start)
             THEN (IF Ge(cur, getDuration(o)) THEN Num(0) ELSE cur)
             ELSE start
    IN  [o EXCEPT !.startPosition = s]

\* mutant: the default position is not wrapped to 0 at the end of the clip
seekTo_NoWrap(o, start) ==
    LET s == IF IsNullish(start) THEN getCurrentTime(o) ELSE start
        o1 == [o EXCEPT !.startPosition = s]
    IN  IF o1.state = FINISHED THEN setState(o1, PAUSED) ELSE o1

seekTo(o, start) ==
    LET cur == getCurrentTime(o)
        s == IF IsNullish(start)
             THEN (IF Ge(cur, getDuration(o)) THEN Num(0) ELSE cur)
             ELSE start
        o1 == [o EXCEPT !.startPosition = s]
    IN  IF o1.state = FINISHED THEN setState(o1, PAUSED) ELSE o1

requestAnimationFrame(o) == [o EXCEPT !.pending = @ + 1]

\* mutant: a missing anchor is set to the origin of the clock, not to the frame
updateClock_AnchorsAtZero(o, time) ==
    IF ~IsNullish(time)
    THEN [o EXCEPT !.clockTime = MsToSec(time),
                   !.lastPlay = IF IsNullish(@) THEN Num(0) ELSE @]
    ELSE o

\* the head of onAudioProcess: the clock reading, and the anchor if there is none
updateClock(o, time) ==
    IF ~IsNullish(time)
    THEN [o EXCEPT !.clockTime = MsToSec(time),
                   !.lastPlay = IF IsNullish(@) THEN MsToSec(time) ELSE @]
    ELSE o

\* the 'play' subscriber of createTimer(), also the frame callback
onAudioProcess(o, time) ==
    LET o1 == updateClock(o, time)
    IN  IF Ge(getCurrentTime(o1), getDuration(o1))
        THEN setState(pause(o1), FINISHED)
        ELSE IF Truthy(o1.scheduledPause) /\ Ge(getCurrentTime(o1), o1.scheduledPause)
        THEN pause(o1)
        ELSE IF o1.state = PLAYING
        THEN requestAnimationFrame(fireEvent(o1, "audioprocess", getCurrentTime(o1)))
        ELSE o1

play(o, start, end) ==
    LET o1 == seekTo(o, start)
        o2 == setState([o1 EXCEPT !.scheduledPause = end], PLAYING)
        o3 == fireEvent([o2 EXCEPT !.lastPlay = Null, !.clockTime = Null], "play", Undef)
    IN  IF o3.handlers THEN onAudioProcess(o3, Undef) ELSE o3

\* mutant: the playback is restarted whatever the state
setPlaybackRate_Restarts(o, value) ==
    LET v == IF Truthy(value) THEN value ELSE Num(1)
    IN  play([pause(o) EXCEPT !.playbackRate = v], Undef, Undef)

setPlaybackRate(o, value) ==
    LET v == IF Truthy(value) THEN value ELSE Num(1)
    IN  IF isPaused(o) THEN [o EXCEPT !.playbackRate = v]
        ELSE play([pause(o) EXCEPT !.playbackRate = v], Undef, Undef)

setPeaks(o, duration) == [o EXCEPT !.explicitDuration = duration]

load(o, duration) ==
    LET o1 == setPeaks([o EXCEPT !.startPosition = Num(0)], duration)
    IN  setState([o1 EXCEPT !.scheduledPause = Null], PAUSED)

\* mutant: the subscribers are left attached
destroy_NoUnAll(o) == pause(o)

destroy(o) == unAll(pause(o))

createTimer(o) == [o EXCEPT !.handlers = TRUE]

init(o, audioRate) == createTimer(setPlaybackRate(o, audioRate))

\* ------------------------------------------------------------- inputs
Durations == {Undef, Num(0)} \cup {Num(d) : d \in (MaxDur - 1)..MaxDur}
Positions == {Undef} \cup {Num(p) : p \in 0..MaxDur}
Ends == {Undef} \cup {Num(p) : p \in 0..MaxDur}
RateArgs == {Undef, Null, Num(0), Num(1), Num(2), Num(-1)}
Timestamps == {s * MsPerSec : s \in 0..MaxClock}

\* ------------------------------------------------------------- operations
InRange(v) == IsNum(v) => (v.n >= -MaxPos /\ v.n <= MaxPos)

\* The object becomes o; op names the operation.
Becomes(o, op) ==
    /\ o.pending <= MaxPending
    /\ InRange(o.startPosition)
    /\ state' = o.state
    /\ startPosition' = o.startPosition
    /\ lastPlay' = o.lastPlay
    /\ clockTime' = o.clockTime
    /\ playbackRate' = o.playbackRate
    /\ scheduledPause' = o.scheduledPause
    /\ explicitDuration' = o.explicitDuration
    /\ handlers' = o.handlers
    /\ pending' = o.pending
    /\ emitted' = o.emitted
    /\ call' = [op |-> op, from |-> state]
    /\ ticked' = (o.state = PLAYING /\ ((op = "tick" /\ state = PLAYING)
                                        \/ (ticked /\ op \in {"seekTo", "setPlaybackRate"})))
    /\ seeked' = (o.state = PLAYING /\ (op = "seekTo"
                                        \/ (seeked /\ op \in {"tick", "setPlaybackRate"})))

Called == phase \in {"ready", "destroyed"}

Init ==
    /\ state = NOSTATE
    /\ startPosition = Null
    /\ lastPlay = Null
    /\ clockTime = Null
    /\ playbackRate = Num(1)
    /\ scheduledPause = Null
    /\ explicitDuration = Null
    /\ handlers = FALSE
    /\ pending = 0
    /\ emitted = <<>>
    /\ now = 0
    /\ phase = "constructed"
    /\ call = [op |-> "constructor", from |-> NOSTATE]
    /\ ticked = FALSE
    /\ seeked = FALSE

DoInit ==
    /\ phase = "constructed"
    /\ \E r \in RateArgs : Becomes(init(This, r), "init")
    /\ phase' = "ready"
    /\ now' = now

LoadWith(d) ==
    /\ Called
    /\ Becomes(load(This, d), "load")
    /\ UNCHANGED <<now, phase>>

DoLoad == \E d \in Durations : LoadWith(d)

PlayWith(s, e) ==
    /\ Called
    /\ Becomes(play(This, s, e), "play")
    /\ UNCHANGED <<now, phase>>

DoPlay == \E s \in Positions, e \in Ends : PlayWith(s, e)

DoPause ==
    /\ Called
    /\ Becomes(pause(This), "pause")
    /\ UNCHANGED <<now, phase>>

SeekToWith(s) ==
    /\ Called
    /\ Becomes(seekTo(This, s), "seekTo")
    /\ UNCHANGED <<now, phase>>

DoSeekTo == \E s \in Positions : SeekToWith(s)

SetPlaybackRateWith(r) ==
    /\ Called
    /\ Becomes(setPlaybackRate(This, r), "setPlaybackRate")
    /\ UNCHANGED <<now, phase>>

DoSetPlaybackRate == \E r \in RateArgs : SetPlaybackRateWith(r)

DoDestroy ==
    /\ Called
    /\ Becomes(destroy(This), "destroy")
    /\ phase' = "destroyed"
    /\ now' = now

\* The browser runs one requested frame callback, with a timestamp t that is not
\* earlier than the one of the frame before.
TickAt(t) ==
    /\ pending > 0
    /\ t >= now
    /\ Becomes(onAudioProcess([This EXCEPT !.pending = @ - 1], Num(t)), "tick")
    /\ now' = t
    /\ phase' = phase

Tick == \E t \in Timestamps : TickAt(t)

Next ==
    \/ DoInit
    \/ DoLoad
    \/ DoPlay
    \/ DoPause
    \/ DoSeekTo
    \/ DoSetPlaybackRate
    \/ DoDestroy
    \/ Tick

Spec == Init /\ [][Next]_vars

\* ------------------------------------------------------------- observations
\* getCurrentTime(), as a caller reads it between two operations
Cur == getCurrentTime(This)

Emits(seq, name) == \E i \in DOMAIN seq : seq[i].name = name

Count(seq, name) == Cardinality({i \in DOMAIN seq : seq[i].name = name})

One == [k |-> "num", n |-> 1, d |-> 1]

\* The current time a frame callback at timestamp t computes before it decides.
CurAt(t) == getCurrentTime(updateClock(This, Num(t)))

\* A clip with a duration > 0 is loaded and the rate is > 0.
Regular ==
    /\ IsNum(explicitDuration) /\ explicitDuration.n > 0
    /\ IsNum(startPosition)
    /\ playbackRate.n > 0

\* ------------------------------------------------------------- C1
\* C1: pause() is idempotent on position: a pause() directly after a pause()
\* leaves startPosition, and so getCurrentTime(), as the first call left them,
\* and still emits pause.
C1_PauseIdempotent ==
    [][(call.op = "pause" /\ call'.op = "pause" /\ Regular /\ DoPause)
          => /\ startPosition' = startPosition
             /\ Cur' = Cur
             /\ (handlers => Emits(emitted', "pause"))]_vars

\* ------------------------------------------------------------- C2
\* C2: finish is emitted exactly once each time playback reaches the end: a
\* frame handled while Playing whose current time is >= the duration moves the
\* state to Finished, emits one finish and leaves getPlayedPercents() = 1; and
\* a frame emits finish only when it is handled while Playing, so that no
\* further finish follows until a later play() has run to the duration.
C2_FinishOnce ==
    [][\A t \in Timestamps :
          (call'.op = "tick" /\ handlers /\ Regular /\ TickAt(t))
             => /\ (state = PLAYING /\ Ge(CurAt(t), explicitDuration))
                      => /\ state' = FINISHED
                         /\ Count(emitted', "finish") = 1
                         /\ getPlayedPercents(This)' = One
                /\ Emits(emitted', "finish") => state = PLAYING]_vars

\* ------------------------------------------------------------- C3
\* C3: scheduled pause: after play(start, end) with 0 <= start < end < duration
\* and a rate > 0, followed by frames only, the frame at which the current time
\* has reached end pauses the clock: the state becomes Paused, pause is emitted,
\* finish is not, and scheduledPause is unset afterwards.
C3_ScheduledPause ==
    [][\A t \in Timestamps :
          (/\ call'.op = "tick"
           /\ TickAt(t)
           /\ handlers
           /\ state = PLAYING
           /\ ~seeked
           /\ IsNum(scheduledPause) /\ IsNum(explicitDuration) /\ IsNum(startPosition)
           /\ 0 <= startPosition.n
           /\ startPosition.n < scheduledPause.n
           /\ scheduledPause.n < explicitDuration.n
           /\ playbackRate.n > 0
           /\ Ge(CurAt(t), scheduledPause))
             => /\ state' = PAUSED
                /\ Emits(emitted', "pause")
                /\ ~Emits(emitted', "finish")
                /\ IsNullish(scheduledPause')]_vars

\* ------------------------------------------------------------- C4
PositionInRange ==
    /\ IsNum(startPosition)
    /\ 0 <= startPosition.n
    /\ startPosition.n <= explicitDuration.n

\* C4: once load(peaks, D) has been called, 0 <= startPosition <= D holds at the
\* end of each operation.  Stated for the operations that take no position (a
\* frame, pause, setPlaybackRate, destroy) on a clip with D > 0 and a rate > 0:
\* from a position in [0, D] they end with a position in [0, D].
C4_PositionInRange ==
    [][(/\ call'.op \in {"tick", "pause", "destroy", "setPlaybackRate"}
        /\ Regular
        /\ PositionInRange
        /\ \/ Tick
           \/ DoPause
           \/ DoDestroy
           \/ \E r \in RateArgs : Truthy(r) /\ r.n > 0 /\ SetPlaybackRateWith(r))
          => PositionInRange']_vars

\* ------------------------------------------------------------- C5
\* C5: while Playing, the current time advances by rate x elapsed frame time,
\* from the first frame after play() on and across setPlaybackRate calls made
\* between frames: a frame at t, handled when the session's latest frame was at
\* `now`, adds playbackRate x (t - now) / 1000 to the current time.
C5_RateInvariance ==
    [][\A t \in Timestamps :
          (call'.op = "tick" /\ Regular /\ state = PLAYING /\ state' = PLAYING /\ ticked
              /\ TickAt(t))
             => Cur' = Add(Cur, Mul(playbackRate, MsToSec(Num(t - now))))]_vars

\* ------------------------------------------------------------- C6
\* A step of a Playing session in which seekTo() has not been called, on a
\* backend whose timer is subscribed: the state is Playing before and after.
PlayingStep ==
    /\ handlers
    /\ state = PLAYING
    /\ state' = PLAYING
    /\ ~seeked
    /\ IsNum(explicitDuration)
    /\ IsNum(startPosition)

\* C6 as stated: while the state stays Playing and seekTo is not called, frames
\* with non-decreasing timestamps and setPlaybackRate calls never decrease
\* getCurrentTime(), for every rate the setter accepts.
C6_MonotonicAnyRate ==
    [][(PlayingStep /\ call'.op \in {"tick", "setPlaybackRate"} /\ (Tick \/ DoSetPlaybackRate))
          => ~Lt(Cur', Cur)]_vars

\* C6 as amended: a frame never decreases getCurrentTime() while the rate in
\* force is > 0, and a setPlaybackRate call, to any rate, leaves it as it was.
C6_MonotonicPositiveRate ==
    [][/\ (PlayingStep /\ call'.op = "tick" /\ playbackRate.n > 0 /\ Tick) => ~Lt(Cur', Cur)
       /\ (PlayingStep /\ call'.op = "setPlaybackRate" /\ DoSetPlaybackRate) => Cur' = Cur]_vars

\* A frame handled while Playing at a rate > 0 has advanced the current time
\* of a clip of 2 seconds from 0 to 1.
C6_Witness ==
    /\ call = [op |-> "tick", from |-> PLAYING]
    /\ handlers
    /\ state = PLAYING
    /\ ~seeked
    /\ playbackRate.n > 0
    /\ explicitDuration = Num(2)
    /\ startPosition = Num(0)
    /\ Cur = Num(1)

\* ------------------------------------------------------------- C7
\* C7: for a duration D > 0 and p in [0, D], seekTo(p) called while Paused or
\* Finished leaves the state Paused with getCurrentTime() = p and emits nothing.
C7_SeekWhileStopped ==
    [][\A p \in 0..MaxDur :
          (/\ call'.op = "seekTo"
           /\ state \in {PAUSED, FINISHED}
           /\ IsNum(explicitDuration)
           /\ explicitDuration.n > 0
           /\ p <= explicitDuration.n
           /\ SeekToWith(Num(p)))
             => /\ state' = PAUSED
                /\ Cur' = Num(p)
                /\ emitted' = <<>>]_vars

\* seekTo(1) has brought a finished clip of 2 seconds back to Paused at 1.
C7_Witness ==
    /\ call = [op |-> "seekTo", from |-> FINISHED]
    /\ Regular
    /\ handlers
    /\ state = PAUSED
    /\ explicitDuration = Num(2)
    /\ Cur = Num(1)
    /\ emitted = <<>>

\* ------------------------------------------------------------- C8
\* C8: scheduledPause is cleared on every exit from Playing: it is unset in
\* every state that is Paused or Finished (stated of the state every operation
\* ends in; the constructor leaves no such state); and a scheduled pause fires at most
\* once per play(): a frame pauses without finishing only when scheduledPause
\* was set, and leaves it unset.
C8_ScheduledPauseCleared ==
    [][/\ state' \in {PAUSED, FINISHED} => IsNullish(scheduledPause')
       /\ (call'.op = "tick" /\ Emits(emitted', "pause") /\ ~Emits(emitted', "finish") /\ Tick)
             => (Truthy(scheduledPause) /\ IsNullish(scheduledPause'))]_vars

\* A frame has paused a session of a clip of 2 seconds once a second had
\* elapsed: the position is 1, pause was emitted and scheduledPause is unset.
C8_Witness ==
    /\ call = [op |-> "tick", from |-> PLAYING]
    /\ Regular
    /\ handlers
    /\ state = PAUSED
    /\ explicitDuration = Num(2)
    /\ Lt(lastPlay, clockTime)
    /\ startPosition = Num(1)
    /\ Emits(emitted, "pause")
    /\ ~Emits(emitted, "finish")
    /\ IsNullish(scheduledPause)

\* ------------------------------------------------------------- C9
\* C9: a frame callback requests the next frame only if the state is Playing
\* when it ends; and once the state has left Playing with no play() after it,
\* the frame stream stops: the frame handled then is the only one outstanding,
\* requests no other and emits no audioprocess.
C9_TickStreamStops ==
    [][(call'.op = "tick" /\ handlers /\ Regular /\ Tick)
          => /\ pending' >= pending => state' = PLAYING
             /\ state # PLAYING
                   => /\ pending = 1
                      /\ pending' = 0
                      /\ ~Emits(emitted', "audioprocess")]_vars

\* ------------------------------------------------------------- C10
\* C10: destroy() pauses one last time, emitting pause and then audioprocess,
\* and detaches every subscriber; after destroy() has returned nothing is
\* emitted, whatever is called and whatever frame is still delivered.
C10_DestroySilences ==
    [][/\ (call'.op = "destroy" /\ handlers /\ DoDestroy)
             => /\ emitted' = <<[name |-> "pause", arg |-> Undef],
                                [name |-> "audioprocess", arg |-> startPosition']>>
                /\ state' = PAUSED
                /\ ~handlers'
       /\ phase = "destroyed" => emitted' = <<>>]_vars

\* A frame requested before destroy() is handled after it, at the end of the
\* clip: the state becomes Finished and nothing is emitted.
C10_Witness ==
    /\ phase = "destroyed"
    /\ Regular
    /\ call = [op |-> "tick", from |-> PAUSED]
    /\ state = FINISHED
    /\ emitted = <<>>

\* ------------------------------------------------------------- C11
Event(name, arg) == [name |-> name, arg |-> arg]

\* C11: a pause() from Playing emits one pause and then one audioprocess; the
\* position, scheduledPause and the state are updated before pause is emitted,
\* so the audioprocess carries the frozen position, the one getCurrentTime()
\* returns after the call.  A frame that finishes the clip emits pause,
\* audioprocess, finish, in this order.
C11_PauseEventOrder ==
    [][(handlers /\ state = PLAYING)
          => /\ (call'.op = "pause" /\ DoPause)
                   => /\ emitted' = <<Event("pause", Undef), Event("audioprocess", Cur')>>
                      /\ state' = PAUSED
                      /\ IsNullish(scheduledPause')
                      /\ Cur' = startPosition'
             /\ (call'.op = "tick" /\ state' = FINISHED /\ Tick)
                   => /\ Len(emitted') = 3
                      /\ emitted'[1] = Event("pause", Undef)
                      /\ emitted'[2].name = "audioprocess"
                      /\ emitted'[3] = Event("finish", Undef)]_vars

\* pause() has frozen a session of a clip of 2 seconds after one second.
C11_Witness ==
    /\ call = [op |-> "pause", from |-> PLAYING]
    /\ Regular
    /\ handlers
    /\ state = PAUSED
    /\ explicitDuration = Num(2)
    /\ Lt(lastPlay, clockTime)
    /\ emitted = <<Event("pause", Undef), Event("audioprocess", Num(1))>>

\* ------------------------------------------------------------- C12
\* play() has been called and no frame with a timestamp has been handled since.
Unanchored ==
    /\ state = PLAYING
    /\ IsNullish(lastPlay)
    /\ IsNullish(clockTime)
    /\ IsNum(startPosition)

\* C12 as stated: while Playing with lastPlay and clockTime both unset,
\* getCurrentTime() is unset, not a number; while Paused it is startPosition
\* and while Finished the duration.
C12_UnsetBeforeFirstTick ==
    /\ Unanchored => ~IsNum(Cur)
    /\ state = PAUSED => Cur = startPosition
    /\ state = FINISHED => Cur = explicitDuration

\* C12 as amended: while Playing with lastPlay and clockTime both unset,
\* getCurrentTime() is startPosition (null - null is 0); while Paused it is
\* startPosition and while Finished the duration.
C12_StartPositionBeforeFirstTick ==
    /\ Unanchored => Cur = startPosition
    /\ state = PAUSED => Cur = startPosition
    /\ state = FINISHED => Cur = explicitDuration

\* play(1) on a clip of 2 seconds has just returned: the current time is 1.
C12_Witness ==
    /\ call.op = "play"
    /\ Unanchored
    /\ Regular
    /\ handlers
    /\ explicitDuration = Num(2)
    /\ startPosition = Num(1)
    /\ Cur = Num(1)
    /\ emitted = <<Event("play", Undef), Event("audioprocess", Num(1))>>

\* ------------------------------------------------------------- C13
\* A quotient that is a number in [0, 1].
InUnit(q) == q.k = "num" /\ 0 <= q.n /\ q.n <= q.d

\* C13: getPlayedPercents() is in [0, 1] in every state reachable after load().
\* Stated for the operations that take no position (a frame, pause,
\* setPlaybackRate to a rate > 0, destroy) on a clip with a duration > 0 and a
\* rate > 0: from a state with startPosition in [0, D] and getPlayedPercents()
\* in [0, 1] they end in a state with getPlayedPercents() in [0, 1].
C13_PercentsInUnit ==
    [][(/\ call'.op \in {"tick", "pause", "destroy", "setPlaybackRate"}
        /\ Regular
        /\ state # NOSTATE
        /\ PositionInRange
        /\ InUnit(getPlayedPercents(This))
        /\ \/ Tick
           \/ DoPause
           \/ DoDestroy
           \/ \E r \in RateArgs : Truthy(r) /\ r.n > 0 /\ SetPlaybackRateWith(r))
          => InUnit(getPlayedPercents(This)')]_vars

\* ------------------------------------------------------------- C14
\* C14: setPlaybackRate(v) called while the state is not Playing changes only
\* playbackRate, to v for a non-zero number v (a negative one too) and to 1 for
\* null, undefined and 0, and emits nothing.
C14_RateWhileStopped ==
    [][\A r \in RateArgs :
          (call'.op = "setPlaybackRate" /\ state # PLAYING /\ SetPlaybackRateWith(r))
             => /\ playbackRate' = (IF IsNum(r) /\ r.n # 0 THEN r ELSE Num(1))
                /\ UNCHANGED <<state, startPosition, scheduledPause, lastPlay, clockTime,
                               explicitDuration, handlers, pending>>
                /\ emitted' = <<>>]_vars

\* setPlaybackRate(-1) has been called on a paused clip: the rate is -1.
C14_Witness ==
    /\ call = [op |-> "setPlaybackRate", from |-> PAUSED]
    /\ state = PAUSED
    /\ handlers
    /\ explicitDuration = Num(2)
    /\ startPosition = Num(1)
    /\ playbackRate = Num(-1)
    /\ emitted = <<>>

\* ------------------------------------------------------------- C15
\* C15: seekTo() with no argument sets the position to the current time when
\* that is below the duration and to 0 when it is at or beyond the duration (a
\* stopped clip then reads that position and a finished one is Paused); so
\* play() with no start, called in Finished or in Paused at a position >= the
\* duration, enters Playing with getCurrentTime() = 0 and, for a duration > 0,
\* does not finish again in that call.
C15_SeekDefault ==
    [][/\ (/\ call'.op = "seekTo"
           /\ IsNum(Cur)
           /\ IsNum(explicitDuration)
           /\ SeekToWith(Undef))
             => /\ startPosition' = (IF Cur.n >= explicitDuration.n THEN Num(0) ELSE Cur)
                /\ state # PLAYING
                      => /\ Cur' = startPosition'
                         /\ state' = PAUSED
                /\ state = PLAYING => state' = PLAYING
                /\ emitted' = <<>>
       /\ (/\ call'.op = "play"
           /\ state \in {PAUSED, FINISHED}
           /\ IsNum(Cur)
           /\ IsNum(explicitDuration)
           /\ explicitDuration.n > 0
           /\ Cur.n >= explicitDuration.n
           /\ \E e \in Ends : PlayWith(Undef, e))
             => /\ state' = PLAYING
                /\ startPosition' = Num(0)
                /\ Cur' = Num(0)
                /\ ~Emits(emitted', "finish")
                /\ ~Emits(emitted', "pause")
                /\ handlers => emitted' = <<Event("play", Undef), Event("audioprocess", Num(0))>>]_vars

\* play() has been called on a finished clip: it plays from 0.
C15_Witness ==
    /\ call = [op |-> "play", from |-> FINISHED]
    /\ state = PLAYING
    /\ handlers
    /\ Regular
    /\ startPosition = Num(0)
    /\ Cur = Num(0)
    /\ Emits(emitted, "audioprocess")

\* ------------------------------------------------------------- C16
\* start + rate x (t / 1000 - t0), for the anchor t0 in seconds
Elapsed(t, t0) == Add(startPosition, Mul(playbackRate, Sub(Num(t \div MsPerSec), t0)))

\* Below the duration and below the scheduled pause, as onAudioProcess tests it.
KeepsPlaying(time) ==
    /\ ~Ge(time, explicitDuration)
    /\ ~(Truthy(scheduledPause) /\ Ge(time, scheduledPause))

\* C16: the first frame handled in a playing session, at any timestamp t0 and
\* also when it was requested by an earlier session, sets the anchor lastPlay
\* to t0 (in seconds) and adds no elapsed time: directly after play() the state
\* stays Playing and getCurrentTime() is still the position play() started
\* from.  A later frame at t gives start + rate x (t - t0) / 1000; below the
\* duration and the scheduled pause it emits audioprocess with that value,
\* requests the next frame and keeps the state Playing.
C16_Anchoring ==
    [][\A t \in Timestamps :
          (call'.op = "tick" /\ now' = t /\ state = PLAYING /\ IsNum(startPosition) /\ TickAt(t))
             => /\ clockTime' = Num(t \div MsPerSec)
                /\ IsNullish(lastPlay)
                      => /\ lastPlay' = Num(t \div MsPerSec)
                         /\ KeepsPlaying(startPosition)
                               => /\ state' = PLAYING
                                  /\ startPosition' = startPosition
                                  /\ Cur' = startPosition
                                  /\ handlers => emitted' = <<Event("audioprocess", startPosition)>>
                         /\ (call.op = "play" /\ handlers)
                               => /\ KeepsPlaying(startPosition)
                                  /\ Cur' = Cur
                /\ IsNum(lastPlay)
                      => /\ lastPlay' = lastPlay
                         /\ KeepsPlaying(Elapsed(t, lastPlay))
                               => /\ state' = PLAYING
                                  /\ startPosition' = startPosition
                                  /\ Cur' = Elapsed(t, lastPlay)
                                  /\ pending' = pending
                                  /\ handlers => emitted' = <<Event("audioprocess", Elapsed(t, lastPlay))>>]_vars

\* A session anchored at the frame of 1000 ms has handled the frame of 2000 ms:
\* the position is 1 second after the start.
C16_Witness ==
    /\ call = [op |-> "tick", from |-> PLAYING]
    /\ state = PLAYING
    /\ handlers
    /\ Regular
    /\ lastPlay = Num(1)
    /\ clockTime = Num(2)
    /\ playbackRate = Num(1)
    /\ startPosition = Num(0)
    /\ Cur = Num(1)
    /\ emitted = <<Event("audioprocess", Num(1))>>

\* ------------------------------------------------------------- C17
\* C17: at most one frame request is outstanding at any time.
C17_OneFrameRequest == (handlers /\ Regular /\ PositionInRange) => pending <= 1

\* ------------------------------------------------------------- C18
\* C18: a frame handled while the state is Paused or Finished leaves state and
\* startPosition unchanged and emits no pause, audioprocess or finish.
C18_StoppedTickInert ==
    [][(/\ call'.op = "tick"
        /\ state \in {PAUSED, FINISHED}
        /\ handlers
        /\ Regular
        /\ PositionInRange
        /\ Tick)
          => /\ state' = state
             /\ startPosition' = startPosition
             /\ emitted' = <<>>]_vars

\* ------------------------------------------------------------- C19
\* C19: setPlaybackRate(v) while Playing leaves the state Playing, leaves
\* getCurrentTime() at its value and leaves a scheduledPause set by
\* play(start, end) in force.
C19_RateKeepsSchedule ==
    [][\A r \in RateArgs :
          (/\ call'.op = "setPlaybackRate"
           /\ state = PLAYING
           /\ handlers
           /\ Regular
           /\ PositionInRange
           /\ ~seeked
           /\ Truthy(scheduledPause) => Lt(scheduledPause, explicitDuration)
           /\ IsNum(r) /\ r.n > 0
           /\ SetPlaybackRateWith(r))
             => /\ state' = PLAYING
                /\ Cur' = Cur
                /\ Truthy(scheduledPause) => scheduledPause' = scheduledPause]_vars

\* ------------------------------------------------------------- C20
\* C20: seekTo(p) with an explicit p within the clip, called while Playing,
\* makes getCurrentTime() equal to p.
C20_SeekWhilePlaying ==
    [][\A p \in Positions :
          (/\ call'.op = "seekTo"
           /\ state = PLAYING
           /\ handlers
           /\ Regular
           /\ PositionInRange
           /\ IsNum(p) /\ Lt(p, explicitDuration)
           /\ SeekToWith(p))
             => Cur' = p]_vars

====
